---- MODULE Spec2Model ----
(***************************************************************************)
(* The webpack runtime bootstrap of prettywebsite.js as a state machine:   *)
(* the module registry (__webpack_require__), the chunk loader             *)
(* (loadChunk and the script/timer completion handler), the deferred queue *)
(* (checkDeferredModules) and the JSONP delivery hook (jsonpArray.push).   *)
(* Every action is one task of the single JavaScript thread, run to its    *)
(* end: the synchronous call tree of a require is computed by the          *)
(* recursive operator WebpackRequire.                                      *)
(***************************************************************************)
EXTENDS Integers, Sequences, FiniteSets, TLC

\* ------------------------------------------------------------------ bounds

\* Most loadChunk calls of one behaviour (each issues at most one fetch).
MaxLoads == 2

\* Most entries deferred in one behaviour.
MaxEntries == 2

\* ------------------------------------------------------------ input domains

\* Module ids that deliveries register and callers require.
ModuleIds == {"a", "b"}

\* The property key a JavaScript object uses for the value undefined
\* (jsonpArray.push without an entry module requires the id undefined).
UndefinedKey == "undefined"

RequireIds == ModuleIds \cup {UndefinedKey}

\* Chunk 77 is the main chunk, complete at boot; 5 is a lazily loaded chunk.
MainChunk == 77
ChunkIds == {5, MainChunk}

\* A factory is opaque code; what the runtime can observe of it is the
\* requires it makes while it runs and whether it throws. For module "a" the
\* second factory requires itself, for "b" it is half of a mutual reference
\* when "b" requires "a".
Factories ==
  {[deps |-> << >>, throws |-> FALSE],
   [deps |-> <<"a">>, throws |-> FALSE],
   [deps |-> <<"b">>, throws |-> FALSE],
   [deps |-> << >>, throws |-> TRUE]}

\* moreModules of a delivery: an object mapping at most one module id to a
\* factory (a later delivery can register the same id again).
ModuleMaps ==
  UNION {[D -> Factories] : D \in {E \in SUBSET ModuleIds : Cardinality(E) <= 1}}

\* chunkIds of a delivery.
ChunkIdLists == {<<MainChunk>>, <<5>>, <<5, MainChunk>>}

\* Deferred entries <<entry module, required chunk ids...>>.
Entries == {<<"a", 5>>, <<"b", 5, MainChunk>>, <<"b", MainChunk>>}

\* ------------------------------------------------------------------ state

VARIABLES
  modules,           \* the factory table (the array passed to the bootstrap)
  installedModules,  \* module id -> record [i, l, exports]
  installedChunks,   \* chunk id -> 0 (complete) or Undefined
  chunkStatus,       \* chunk id -> 0, Undefined, or the pending entry [resolve, reject, promise]
  chunkQueue,        \* the deferred entries <<entry module, chunk ids...>>
  scripts,           \* one per fetch: the script element, its timer and the event raised on it
  promises,          \* one per fetch: the promise created at line 33
  futures,           \* one per loadChunk call: what Promise.all was given
  hung,              \* a task entered a loop that never ends
  nextObj,           \* the heap: the next fresh object identity
  runs,              \* history: module id -> number of invocations of its factory
  returned,          \* history: module id -> identities of the exports require(id) returned
  hitRunning,        \* history: ids whose require returned while the id's own factory was running
  hitLoaded,         \* history: ids whose require returned from the cache after instantiation
  missThrown,        \* history: ids required with no factory registered whose call threw
  missReturned,      \* history: ids required with no factory registered whose call returned
  deferred,          \* history: the entries put on the queue, in order
  fired,             \* history: the entries the drain executed, in order, each with
                     \*          whether all its chunks were complete at that moment
  lastScan,          \* history: the first checkDeferredModules() call of the latest
                     \*          delivery that found the queue non-empty
  lastPush           \* history: how the latest jsonpArray.push call ended

vars == <<modules, installedModules, installedChunks, chunkStatus, chunkQueue,
          scripts, promises, futures, hung, nextObj, runs, returned,
          hitRunning, hitLoaded, missThrown, missReturned, deferred, fired,
          lastScan, lastPush>>

registryVars == <<modules, installedModules, nextObj, runs, returned,
                  hitRunning, hitLoaded, missThrown, missReturned, deferred,
                  fired, lastScan, lastPush>>
loaderVars == <<chunkStatus, scripts, promises, futures>>

\* The JavaScript value undefined in a chunk table.
Undefined == -1

\* obj[k] = v on a JavaScript object.
Put(f, k, v) == [x \in DOMAIN f \cup {k} |-> IF x = k THEN v ELSE f[x]]

\* ------------------------------------------------------- Module Registry

\* Line 13: if (installedModules[moduleId]).
IsInstalled(im, moduleId) == moduleId \in DOMAIN im

\* Lines 15-19: installedModules[moduleId] = {i, l: false, exports: {}}.
NewModule(im, moduleId, obj) ==
  Put(im, moduleId, [i |-> moduleId, l |-> FALSE, exports |-> obj])

\* A bug that forgets the record once the factory has returned.
MarkLoadedForgets(im, moduleId) ==
  [x \in DOMAIN im \ {moduleId} |-> im[x]]

\* Line 23: module.l = true.
MarkLoaded(im, moduleId) == [im EXCEPT ![moduleId].l = TRUE]

\* A return of require(moduleId) with exports obj, entered in the histories.
Return(st, moduleId, obj) ==
  [st EXCEPT !.val = obj,
             !.returned[moduleId] = @ \cup {obj},
             !.missReturned = IF moduleId \in DOMAIN st.modules
                                THEN @ ELSE @ \cup {moduleId}]

RECURSIVE WebpackRequire(_, _), CallFactory(_, _, _)

\* Lines 12-25: __webpack_require__(moduleId), from the synchronous state st
\* to the state when the call returns or throws (st.aborted).
WebpackRequire(st, moduleId) ==
  IF IsInstalled(st.im, moduleId)
    THEN LET hit == Return(st, moduleId, st.im[moduleId].exports)
         IN [hit EXCEPT
               !.hitRunning = IF moduleId \in st.running
                                THEN @ \cup {moduleId} ELSE @,
               !.hitLoaded = IF st.im[moduleId].l
                               THEN @ \cup {moduleId} ELSE @]
    ELSE LET created == [st EXCEPT
                           !.im = NewModule(@, moduleId, st.nextObj),
                           !.nextObj = @ + 1]
         IN IF moduleId \notin DOMAIN st.modules
              \* modules[moduleId] is undefined: .call throws a TypeError
              THEN [created EXCEPT !.aborted = TRUE,
                                   !.missThrown = @ \cup {moduleId}]
              ELSE LET ran == CallFactory(
                                [created EXCEPT !.runs[moduleId] = @ + 1,
                                                !.running = @ \cup {moduleId}],
                                st.modules[moduleId], 1)
                   IN IF ran.aborted
                        THEN ran
                        ELSE Return([ran EXCEPT
                                       !.im = MarkLoaded(@, moduleId),
                                       !.running = @ \ {moduleId}],
                                    moduleId, ran.im[moduleId].exports)

\* Line 21: the factory's body from its k-th require on.
CallFactory(st, factory, k) ==
  IF st.aborted THEN st
  ELSE IF k > Len(factory.deps)
    THEN [st EXCEPT !.aborted = factory.throws]
    ELSE CallFactory(WebpackRequire(st, factory.deps[k]), factory, k + 1)

\* The synchronous state a task starts from.
Enter(mods, queue) ==
  [modules |-> mods, im |-> installedModules, chunkQueue |-> queue,
   nextObj |-> nextObj, runs |-> runs, returned |-> returned,
   hitRunning |-> hitRunning, hitLoaded |-> hitLoaded,
   missThrown |-> missThrown, missReturned |-> missReturned,
   fired |-> fired,
   running |-> {}, aborted |-> FALSE, hung |-> FALSE, val |-> 0]

\* The state a task leaves behind, whether it returned or threw.
Leave(st) ==
  /\ installedModules' = st.im
  /\ nextObj' = st.nextObj
  /\ runs' = st.runs
  /\ returned' = st.returned
  /\ hitRunning' = st.hitRunning
  /\ hitLoaded' = st.hitLoaded
  /\ missThrown' = st.missThrown
  /\ missReturned' = st.missReturned
  /\ fired' = st.fired
  /\ deferred' = deferred

\* A call of __webpack_require__ by module code that kept the function it was
\* handed at line 21.
Require(moduleId) ==
  /\ ~hung
  /\ \E done \in {WebpackRequire(Enter(modules, chunkQueue), moduleId)} :
       Leave(done)
  /\ UNCHANGED <<modules, installedChunks, chunkQueue, hung, lastScan,
                 lastPush>>
  /\ UNCHANGED loaderVars

\* ------------------------------------------------- Deferred Execution Queue

\* chunkQueue.splice(i, 1).
Splice(queue, i) == SubSeq(queue, 1, i - 1) \o SubSeq(queue, i + 1, Len(queue))

\* A bug that assigns fulfilled at each chunk id instead of clearing it: only
\* the last chunk id decides.
FulfilledLastOnly(ic, deferredModule) ==
  \/ Len(deferredModule) < 2
  \/ /\ deferredModule[Len(deferredModule)] \in DOMAIN ic
     /\ ic[deferredModule[Len(deferredModule)]] = 0

\* Lines 76-79: every chunk id of the entry (its elements after the first) is
\* complete in installedChunks.
Fulfilled(ic, deferredModule) ==
  \A j \in 2..Len(deferredModule) :
    /\ deferredModule[j] \in DOMAIN ic
    /\ ic[deferredModule[j]] = 0

\* A bug that forgets the i-- of line 81.
AfterSpliceSkips(i) == i + 1

\* Lines 81 and 73: splice(i--, 1), then the loop's i++: the entry that moved
\* into position i is examined next.
AfterSplice(i) == i

\* The execution of deferredModule by the drain, entered in the history with
\* whether each of its chunk ids is 0 in installedChunks at that moment.
Fire(st, ic, deferredModule) ==
  [st EXCEPT !.fired = Append(@,
     [entry |-> deferredModule,
      ready |-> \A j \in 2..Len(deferredModule) :
                  /\ deferredModule[j] \in DOMAIN ic
                  /\ ic[deferredModule[j]] = 0])]

RECURSIVE ScanFrom(_, _, _)

\* Lines 73-84: the scan of checkDeferredModules from (1-based) position i.
\* A throwing entry module ends the scan with its entry already spliced out.
ScanFrom(st, ic, i) ==
  IF st.aborted \/ i > Len(st.chunkQueue) THEN st
  ELSE LET deferredModule == st.chunkQueue[i]
       IN IF Fulfilled(ic, deferredModule)
            THEN ScanFrom(
                   WebpackRequire(
                     Fire([st EXCEPT !.chunkQueue = Splice(@, i)],
                          ic, deferredModule),
                     deferredModule[1]),
                   ic, AfterSplice(i))
            ELSE ScanFrom(st, ic, i + 1)

\* Lines 71-86: checkDeferredModules(); result starts undefined (0) and is
\* st.val of the last entry executed.
CheckDeferredModules(st, ic) == ScanFrom([st EXCEPT !.val = 0], ic, 1)

RECURSIVE DrainLoop(_, _)

\* Lines 115-117: while (chunkQueue.length) checkDeferredModules(). A scan
\* that removes nothing leaves every table as it was, so the loop repeats it
\* for ever (st.hung).
DrainLoop(st, ic) ==
  IF st.aborted \/ st.chunkQueue = << >> THEN st
  ELSE LET scanned == CheckDeferredModules(st, ic)
       IN IF scanned.chunkQueue = st.chunkQueue
            THEN [st EXCEPT !.hung = TRUE]
            ELSE DrainLoop(scanned, ic)

\* Section 4.4 of the specification, push(entry): the entry is appended to the
\* queue. No line of the source appends to chunkQueue.
PushEntry(entry) ==
  /\ ~hung
  /\ Len(deferred) < MaxEntries
  /\ chunkQueue' = Append(chunkQueue, entry)
  /\ deferred' = Append(deferred, entry)
  /\ UNCHANGED <<modules, installedModules, installedChunks, hung, nextObj,
                 runs, returned, hitRunning, hitLoaded, missThrown,
                 missReturned, fired, lastScan, lastPush>>
  /\ UNCHANGED <<chunkStatus, scripts, promises, futures>>

\* No scan has been recorded.
NoScan ==
  [before |-> << >>, ic |-> << >>, after |-> << >>, executed |-> << >>,
   val |-> 0, returned |-> FALSE]

\* One checkDeferredModules() call on the queue of st, as the history keeps it:
\* the queue before and after, the entries executed and the result.
ScanRecord(st, ic) ==
  LET scanned == CheckDeferredModules(st, ic)
  IN [before |-> st.chunkQueue, ic |-> ic, after |-> scanned.chunkQueue,
      executed |-> [n \in 1..(Len(scanned.fired) - Len(st.fired)) |->
                      scanned.fired[Len(st.fired) + n].entry],
      val |-> IF scanned.aborted THEN 0 ELSE scanned.val,
      returned |-> ~scanned.aborted]

\* ------------------------------------------------------- Unit delivery

\* Lines 100-106: each delivered chunk id is marked complete. No entry of
\* installedChunks is ever truthy (the pending entries live in chunkStatus),
\* so line 103 never calls a resolve function.
MarkChunks(ic, chunkIds) ==
  [c \in DOMAIN ic \cup {chunkIds[i] : i \in 1..Len(chunkIds)} |->
     IF \E i \in 1..Len(chunkIds) : chunkIds[i] = c THEN 0 ELSE ic[c]]

\* Lines 108-112: modules[moduleId] = moreModules[moduleId], last write wins.
MergeModules(mods, moreModules) ==
  [m \in DOMAIN mods \cup DOMAIN moreModules |->
     IF m \in DOMAIN moreModules THEN moreModules[m] ELSE mods[m]]

\* Lines 95-120: jsonpArray.push([chunkIds, moreModules, executeModules]).
\* oldJsonpFunction appends chunkData to the array, which the runtime never
\* reads. Line 119 requires executeModules whatever it is.
JsonpPush(chunkIds, moreModules, executeModules) ==
  /\ ~hung
  /\ \E ic \in {MarkChunks(installedChunks, chunkIds)},
        mods \in {MergeModules(modules, moreModules)} :
     \E drained \in {DrainLoop(Enter(mods, chunkQueue), ic)} :
     \E done \in {IF drained.aborted \/ drained.hung
                     THEN drained
                     ELSE WebpackRequire(drained, executeModules)} :
        /\ installedChunks' = ic
        /\ modules' = mods
        /\ chunkQueue' = done.chunkQueue
        /\ hung' = done.hung
        /\ lastPush' = IF done.hung THEN "hung"
                         ELSE IF done.aborted THEN "threw" ELSE "returned"
        /\ lastScan' = IF chunkQueue = << >>
                         THEN lastScan
                         ELSE ScanRecord(Enter(mods, chunkQueue), ic)
        /\ Leave(done)
  /\ UNCHANGED loaderVars

\* ------------------------------------------------------------ Unit Loader

\* Line 91: __webpack_require__.p.
PublicPath == "https://cdn2.edulastic.com/JS/dist/"

\* Line 41: script.src = __webpack_require__.p + chunkId + '.chunk.js'.
ScriptSrc(chunkId) == PublicPath \o ToString(chunkId) \o ".chunk.js"

\* if (v) on a chunk table value: the pending entry is an array, the only
\* truthy value a table holds; a pending entry is named by its fetch.
Truthy(v) == v # 0 /\ v # Undefined

\* A bug that never takes the branch of line 30.
InFlightNever(status) == FALSE

\* Line 30: if (chunkStatus[chunkId]), a load of the chunk is in flight.
InFlight(status) == Truthy(status)

\* The reason of a promise that has not been rejected.
NoReason == [name |-> "", type |-> "", request |-> ""]

\* Line 33: new Promise(...).
NewPromise == [state |-> "pending", reason |-> NoReason]

\* A bug whose reject leaves the promise as it was.
RejectIgnored(promise, error) == promise

\* chunk[1](error): reject settles a promise that is still pending.
Reject(promise, error) ==
  IF promise.state = "pending"
    THEN [state |-> "rejected", reason |-> error]
    ELSE promise

\* Promise.all(items): fulfilled for no items; an item that is no thenable
\* (the pending entry pushed at line 31 is an array) counts as fulfilled; a
\* promise item passes its own outcome on.
PromiseAll(items, ps) ==
  IF \E n \in 1..Len(items) : items[n].thenable /\ ps[items[n].ref].state = "rejected"
    THEN LET n == CHOOSE n \in 1..Len(items) :
                    items[n].thenable /\ ps[items[n].ref].state = "rejected"
         IN [state |-> "rejected", reason |-> ps[items[n].ref].reason]
  ELSE IF \E n \in 1..Len(items) : items[n].thenable /\ ps[items[n].ref].state = "pending"
    THEN NewPromise
    ELSE [state |-> "fulfilled", reason |-> NoReason]

\* Lines 27-69: loadChunk(chunkId), the k-th fetch when it issues one.
LoadChunk(chunkId) ==
  /\ ~hung
  /\ Len(futures) < MaxLoads
  /\ LET status == chunkStatus[chunkId]
         k == Len(scripts) + 1
     IN IF InFlight(status)
          THEN \* line 31: the entry itself, not its promise, is pushed
               /\ futures' = Append(futures,
                    [chunkId |-> chunkId,
                     items |-> <<[thenable |-> FALSE, ref |-> status]>>])
               /\ UNCHANGED <<chunkStatus, scripts, promises>>
          ELSE IF status # 0
            THEN /\ promises' = Append(promises, NewPromise)
                 /\ chunkStatus' = [chunkStatus EXCEPT ![chunkId] = k]
                 /\ scripts' = Append(scripts,
                      [chunkId |-> chunkId, src |-> ScriptSrc(chunkId),
                       timeout |-> "armed", event |-> "none"])
                 /\ futures' = Append(futures,
                      [chunkId |-> chunkId,
                       items |-> <<[thenable |-> TRUE, ref |-> k]>>])
            ELSE /\ futures' = Append(futures,
                      [chunkId |-> chunkId, items |-> << >>])
                 /\ UNCHANGED <<chunkStatus, scripts, promises>>
  /\ UNCHANGED <<installedChunks, chunkQueue, hung>>
  /\ UNCHANGED registryVars

\* Line 45: clearTimeout(timeout) cancels a timer that has not fired.
ClearTimeout(timeout) == IF timeout = "armed" THEN "cleared" ELSE timeout

\* A bug that reports every failure as "missing".
EventTypeAlwaysMissing(event) == "missing"

\* Line 49: event.type === 'load' ? 'missing' : event.type.
EventType(event) == IF event.type = "load" THEN "missing" ELSE event.type

\* A bug that leaves the pending entry in place after a failure.
ResetChunkKeeps(cs, chunkId) == cs

\* A bug that marks a failed chunk complete.
ResetChunkCompletes(cs, chunkId) == [cs EXCEPT ![chunkId] = 0]

\* Line 58: chunkStatus[chunkId] = undefined.
ResetChunk(cs, chunkId) == [cs EXCEPT ![chunkId] = Undefined]

\* Lines 44-60: the handler of the k-th fetch, script.onerror = script.onload,
\* called with event on the tables s, cs, ps. chunkId, timeout and error are
\* the closure's; chunkStatus is read when the handler runs.
OnScriptComplete(s, cs, ps, k, event) ==
  LET chunkId == s[k].chunkId
      chunk == cs[chunkId]
      cleared == [s EXCEPT ![k].timeout = ClearTimeout(@)]
      error == [name |-> "ChunkLoadError", type |-> EventType(event),
                request |-> s[event.target].src]
  IN IF chunk # 0
       THEN [scripts |-> cleared,
             promises |-> IF Truthy(chunk)
                            THEN [ps EXCEPT ![chunk] = Reject(@, error)]
                            ELSE ps,
             chunkStatus |-> ResetChunk(cs, chunkId)]
       ELSE [scripts |-> cleared, promises |-> ps, chunkStatus |-> cs]

\* The tables a handler call leaves behind.
Settle(after) ==
  /\ scripts' = after.scripts
  /\ promises' = after.promises
  /\ chunkStatus' = after.chunkStatus
  /\ UNCHANGED <<futures, installedChunks, chunkQueue, hung>>
  /\ UNCHANGED registryVars

\* The browser raises the load event on the k-th script: at most one event
\* per script element.
ScriptLoad(k) ==
  /\ ~hung
  /\ scripts[k].event = "none"
  /\ Settle(OnScriptComplete([scripts EXCEPT ![k].event = "load"],
                             chunkStatus, promises, k,
                             [type |-> "load", target |-> k]))

\* The browser raises the error event on the k-th script.
ScriptError(k) ==
  /\ ~hung
  /\ scripts[k].event = "none"
  /\ Settle(OnScriptComplete([scripts EXCEPT ![k].event = "error"],
                             chunkStatus, promises, k,
                             [type |-> "error", target |-> k]))

\* Line 62: the event the timer callback hands to script.onerror.
TimeoutEvent(k) == [type |-> "timeout", target |-> k]

\* Lines 61-63: the timer of the k-th fetch fires.
Timeout(k) ==
  /\ ~hung
  /\ scripts[k].timeout = "armed"
  /\ Settle(OnScriptComplete([scripts EXCEPT ![k].timeout = "fired"],
                             chunkStatus, promises, k, TimeoutEvent(k)))

Init ==
  /\ modules = << >>
  /\ installedModules = << >>
  /\ installedChunks = [c \in ChunkIds |-> IF c = MainChunk THEN 0 ELSE Undefined]
  /\ chunkStatus = [c \in ChunkIds |-> IF c = MainChunk THEN 0 ELSE Undefined]
  /\ chunkQueue = << >>
  /\ scripts = << >>
  /\ promises = << >>
  /\ futures = << >>
  /\ hung = FALSE
  /\ nextObj = 1
  /\ runs = [m \in RequireIds |-> 0]
  /\ returned = [m \in RequireIds |-> {}]
  /\ hitRunning = {}
  /\ hitLoaded = {}
  /\ missThrown = {}
  /\ missReturned = {}
  /\ deferred = << >>
  /\ fired = << >>
  /\ lastScan = NoScan
  /\ lastPush = "none"

\* Deliveries as the registry sees them: no chunk table is read by a require
\* and the queue holds no entry, so one list of chunk ids stands for all.
RegistryChunkIdLists == {<<5, MainChunk>>}

\* The registry's operations with the deliveries of modules.
RegistryNext ==
  \/ \E moduleId \in ModuleIds : Require(moduleId)
  \/ \E chunkIds \in RegistryChunkIdLists, moreModules \in ModuleMaps,
        executeModules \in RequireIds :
       JsonpPush(chunkIds, moreModules, executeModules)

\* Deliveries as the loader sees them: the loader reads no registry table,
\* so these carry no module or one plain module "a".
LoaderModuleMaps == {<< >>, [m \in {"a"} |-> [deps |-> << >>, throws |-> FALSE]]}

\* The loader's operations with the deliveries of chunks.
LoaderNext ==
  \/ \E chunkId \in ChunkIds : LoadChunk(chunkId)
  \/ \E k \in 1..Len(scripts) : ScriptLoad(k)
  \/ \E k \in 1..Len(scripts) : ScriptError(k)
  \/ \E k \in 1..Len(scripts) : Timeout(k)
  \/ \E chunkIds \in ChunkIdLists, moreModules \in LoaderModuleMaps,
        executeModules \in {"a", UndefinedKey} :
       JsonpPush(chunkIds, moreModules, executeModules)

\* Deliveries as the queue sees them: no module, or a plain module "a" or "b";
\* an entry module with no factory aborts the drain.
QueueModuleMaps ==
  {<< >>,
   [m \in {"a"} |-> [deps |-> << >>, throws |-> FALSE]],
   [m \in {"b"} |-> [deps |-> << >>, throws |-> FALSE]]}

\* <<5, MainChunk>> marks the chunks that <<5>> marks.
QueueChunkIdLists == {<<MainChunk>>, <<5>>}

\* The deferred queue's operations with the deliveries.
QueueNext ==
  \/ \E entry \in Entries : PushEntry(entry)
  \/ \E chunkIds \in QueueChunkIdLists, moreModules \in QueueModuleMaps,
        executeModules \in {"a", UndefinedKey} :
       JsonpPush(chunkIds, moreModules, executeModules)

Next == RegistryNext \/ LoaderNext \/ QueueNext

\* Every operation with every input.
Spec == Init /\ [][Next]_vars

\* The module registry, the deferred queue and the deliveries.
RegistrySpec == Init /\ [][RegistryNext]_vars

\* The unit loader and the deliveries.
LoaderSpec == Init /\ [][LoaderNext]_vars

\* The deferred queue and the deliveries.
QueueSpec == Init /\ [][QueueNext]_vars

\* The unit loader where a timer that setTimeout (line 61) armed and that no
\* clearTimeout (line 45) cancelled fires in the end.
LoaderLiveSpec ==
  LoaderSpec /\ \A k \in 1..MaxLoads : WF_vars(k <= Len(scripts) /\ Timeout(k))

\* ------------------------------------------------------------------ claims

\* C1: under every sequence of requires and deliveries (direct, re-entrant,
\* entry execution, re-registration of the factory) the factory of a module
\* id is invoked at most once.
C1_FactoryRunsAtMostOnce == \A m \in RequireIds : runs[m] <= 1

\* C1's case: "a" was instantiated by one factory run, served from the cache
\* afterwards, and the factory registered now is a later, different one.
C1_Witness ==
  /\ "a" \in DOMAIN modules
  /\ modules["a"].throws
  /\ runs["a"] = 1
  /\ "a" \in hitLoaded

C3_MissingFactoryAlwaysThrows == missReturned = {}

\* ------------------------------------------------------------ loader claims

\* The step raises the load event on the k-th script.
LoadSignal(k) == scripts[k].event = "none" /\ scripts'[k].event = "load"

\* The step raises the error event on the k-th script.
ErrorSignal(k) == scripts[k].event = "none" /\ scripts'[k].event = "error"

\* The step fires the timer of the k-th script.
TimerFires(k) == scripts[k].timeout = "armed" /\ scripts'[k].timeout = "fired"

\* The step is a loadChunk(chunkId) call.
LoadCall(chunkId) ==
  /\ Len(futures') = Len(futures) + 1
  /\ futures'[Len(futures')].chunkId = chunkId

\* The outcome of the n-th loadChunk call's future.
Outcome(n) == PromiseAll(futures[n].items, promises)

\* C4: a step taken while a load of chunk c is pending issues no fetch and
\* starts no timer for c, and a pending chunk has exactly one fetch whose
\* promise is the pending one.
C4_OneFetchPerPendingUnit ==
  /\ [](\A c \in ChunkIds :
          Truthy(chunkStatus[c]) =>
            /\ chunkStatus[c] \in 1..Len(scripts)
            /\ scripts[chunkStatus[c]].chunkId = c
            /\ promises[chunkStatus[c]].state = "pending")
  /\ [][\A c \in ChunkIds :
          Truthy(chunkStatus[c]) =>
            /\ Len(scripts') = Len(scripts)
            /\ \A k \in 1..Len(scripts) :
                 scripts[k].timeout # "armed" => scripts'[k].timeout # "armed"]_vars

\* C4's case: chunk 5 is pending, loadChunk(5) was called twice, the second
\* call through the pending branch, and there is one fetch.
C4_Witness ==
  /\ Truthy(chunkStatus[5])
  /\ Len(futures) = 2
  /\ futures[1].chunkId = 5
  /\ futures[2].chunkId = 5
  /\ ~futures[2].items[1].thenable
  /\ Len(scripts) = 1

\* C5: the future of a loadChunk call made while the chunk was pending has
\* the outcome of the pending promise: pending while it is pending, fulfilled
\* iff it is fulfilled, rejected with the same error iff it is rejected.
C5_SecondCallerSharesOutcome ==
  \A n \in 1..Len(futures) :
    \A j \in 1..Len(futures[n].items) :
      ~futures[n].items[j].thenable =>
        Outcome(n) = promises[futures[n].items[j].ref]

\* C6: a load event that arrives before the timer fires, for a pending
\* chunk whose code has been delivered, cancels the timer, marks the chunk
\* complete in chunkStatus and fulfils the promise.
C6_LoadSignalResolves ==
  [][\A k \in 1..Len(scripts) :
       (/\ LoadSignal(k)
        /\ scripts[k].timeout = "armed"
        /\ chunkStatus[scripts[k].chunkId] = k
        /\ installedChunks[scripts[k].chunkId] = 0)
       => /\ scripts'[k].timeout = "cleared"
          /\ chunkStatus'[scripts[k].chunkId] = 0
          /\ promises'[k].state = "fulfilled"]_vars

\* C7: a delivery that marks chunk c complete while a load of c is pending
\* fulfils the pending promise.
C7_DeliveryResolvesPendingLoad ==
  [][\A c \in ChunkIds :
       (/\ Truthy(chunkStatus[c])
        /\ installedChunks[c] # 0
        /\ installedChunks'[c] = 0)
       => promises'[chunkStatus[c]].state = "fulfilled"]_vars

\* C8: an error event that arrives before the timer fires, while the load is
\* pending, cancels the timer, rejects the promise with type "error" (the
\* event's type) and the script's locator as request, and resets the chunk to
\* undefined; a loadChunk call for a chunk that is undefined issues a fetch.
C8_ErrorRejectsAndResets ==
  /\ [][\A k \in 1..Len(scripts) :
          (/\ ErrorSignal(k)
           /\ scripts[k].timeout = "armed"
           /\ promises[k].state = "pending")
          => /\ scripts'[k].timeout = "cleared"
             /\ promises'[k].state = "rejected"
             /\ promises'[k].reason.type = "error"
             /\ promises'[k].reason.request = ScriptSrc(scripts[k].chunkId)
             /\ \A n \in 1..Len(futures) :
                  futures[n].items = <<[thenable |-> TRUE, ref |-> k]>> =>
                    PromiseAll(futures'[n].items, promises') = promises'[k]
             /\ chunkStatus'[scripts[k].chunkId] = Undefined]_vars
  /\ [][\A c \in ChunkIds :
          (LoadCall(c) /\ chunkStatus[c] = Undefined)
          => /\ Len(scripts') = Len(scripts) + 1
             /\ scripts'[Len(scripts')] =
                  [chunkId |-> c, src |-> ScriptSrc(c),
                   timeout |-> "armed", event |-> "none"]
             /\ chunkStatus'[c] = Len(scripts')
             /\ promises'[Len(scripts')].state = "pending"]_vars

\* C8's case: the first fetch of chunk 5 failed with an error event before
\* its timer fired, and a second loadChunk(5) issued a second fetch.
C8_Witness ==
  /\ Len(scripts) = 2
  /\ scripts[1].chunkId = 5
  /\ scripts[1].event = "error"
  /\ scripts[1].timeout = "cleared"
  /\ promises[1].state = "rejected"
  /\ promises[1].reason.type = "error"
  /\ scripts[2].chunkId = 5
  /\ chunkStatus[5] = 2

C10_LateSignalIsNoOp ==
  [][\A k \in 1..Len(scripts) :
       ((LoadSignal(k) \/ ErrorSignal(k)) /\ scripts[k].timeout = "fired")
       => /\ promises' = promises
          /\ chunkStatus' = chunkStatus]_vars

\* ------------------------------------------------------------- queue claims

\* Each chunk id of the entry is 0 in the completion table ic.
AllComplete(ic, entry) ==
  \A j \in 2..Len(entry) : entry[j] \in DOMAIN ic /\ ic[entry[j]] = 0

\* How often entry occurs in the sequence.
Count(seq, entry) == Cardinality({n \in 1..Len(seq) : seq[n] = entry})

\* The entries the drain has executed, in order.
FiredEntries == [n \in 1..Len(fired) |-> fired[n].entry]

\* C11: the drain executes an entry only when all its chunk ids are complete
\* in installedChunks, and every entry ever queued is either still queued or
\* was executed by the drain exactly once (it never re-appears).
C11_DrainFiresReadyEntriesOnce ==
  /\ \A n \in 1..Len(fired) : fired[n].ready
  /\ \A entry \in Entries :
       Count(FiredEntries, entry) + Count(chunkQueue, entry)
         = Count(deferred, entry)

\* C11's case: the drain has executed the entry with two required chunks and
\* another entry.
C11_Witness ==
  /\ Len(fired) = 2
  /\ \E n \in 1..Len(fired) : fired[n].entry = <<"b", 5, MainChunk>>

\* C12: a delivery that leaves a queued entry with a chunk not complete ends
\* its drain loop (the runtime does not hang) with that entry still queued.
C12_DrainLoopTerminates ==
  [][\A i \in 1..Len(chunkQueue) :
       (deferred' = deferred /\ ~AllComplete(installedChunks', chunkQueue[i]))
       => /\ ~hung'
          /\ Count(chunkQueue', chunkQueue[i]) >= 1]_vars

\* C13 (the part about deliveries without an entry module): no delivery
\* creates a module record for the absent id undefined, and none fails the
\* lookup of it.
C13_NoRequireWithoutEntryModule ==
  /\ UndefinedKey \notin DOMAIN installedModules
  /\ UndefinedKey \notin missThrown

\* C14: loadChunk(c) for a chunk that is complete in installedChunks (at boot
\* or by a delivery) issues no fetch, starts no timer and returns a fulfilled
\* future.
C14_CompleteChunkLoadsAtOnce ==
  [][\A c \in ChunkIds :
       (LoadCall(c) /\ installedChunks[c] = 0)
       => /\ scripts' = scripts
          /\ PromiseAll(futures'[Len(futures')].items, promises').state
               = "fulfilled"]_vars

C16_TablesAgreeOnComplete ==
  \A c \in ChunkIds : (chunkStatus[c] = 0) <=> (installedChunks[c] = 0)

C18_BothEntriesRunOnce ==
  [][\A i, j \in 1..Len(chunkQueue) :
       (/\ i < j
        /\ deferred' = deferred
        /\ lastPush' = "returned"
        /\ ~AllComplete(installedChunks, chunkQueue[i])
        /\ ~AllComplete(installedChunks, chunkQueue[j])
        /\ AllComplete(installedChunks', chunkQueue[i])
        /\ AllComplete(installedChunks', chunkQueue[j]))
       => /\ \A k \in 1..Len(chunkQueue') :
               chunkQueue'[k] \notin {chunkQueue[i], chunkQueue[j]}
          /\ runs'[chunkQueue[i][1]] = 1
          /\ runs'[chunkQueue[j][1]] = 1]_vars

\* C20: after a require that aborted no record of the module stays in
\* installedModules: between tasks every record is an instantiated one.
C20_AbortLeavesNoRecord ==
  \A m \in DOMAIN installedModules : installedModules[m].l

\* C19: every future that a loadChunk call returned is settled in the end,
\* fulfilled or rejected, when every timer that is not cancelled fires,
\* whatever load events, error events and deliveries occur.
C19_EveryLoadFutureSettles ==
  \A n \in 1..MaxLoads :
    (n <= Len(futures)) ~> (n <= Len(futures) /\ Outcome(n).state # "pending")

\* C19's case: a future with no load or error event on any script, settled
\* by its timer after a delivery of its chunk.
C19_Witness ==
  \E n \in 1..Len(futures) :
    /\ futures[n].items # << >>
    /\ futures[n].items[1].thenable
    /\ Outcome(n).state = "rejected"
    /\ Outcome(n).reason.type = "timeout"
    /\ installedChunks[futures[n].chunkId] = 0
    /\ \A k \in 1..Len(scripts) : scripts[k].event = "none"
====
